---- MODULE Spec2Model ----
(***************************************************************************)
(* Model of the media-store API client (media_store_client/apiclient.py):  *)
(* the session (token, headers), login, hello and the request dispatcher   *)
(* make_request with its status-code classification into ApiResponse       *)
(* envelopes and typed errors.  The transport (the requests library and    *)
(* the remote server) is the environment: every response it can give is a  *)
(* nondeterministic input of the action that issues the request.           *)
(***************************************************************************)
EXTENDS Integers, Sequences, FiniteSets, TLC

VARIABLES
    phase,          \* "new": __init__ not yet run; "alive": constructed; "dead": __init__ raised
    base_url,       \* self.base_url
    username,       \* self.username
    password,       \* self.password
    token,          \* self.token
    headers,        \* self.headers
    default_reties, \* self.default_reties
    requests_sent,  \* number of requests the transport has received from this client
    server,         \* what the remote service stores: the metadata of the media record
    last,           \* record of the last completed call on the client
    threads         \* the dispatch each thread that shares the client is in, step by step

vars == <<phase, base_url, username, password, token, headers, default_reties,
          requests_sent, server, last, threads>>

session == <<base_url, username, password, token, headers, default_reties>>

-----------------------------------------------------------------------------
(* Bounds of the model *)

\* the transport accepts at most this many requests in one behaviour
MaxRequests == 3

\* the service answers at most this many requests in one behaviour
MaxServiceRequests == 4

-----------------------------------------------------------------------------
(* Python values *)

None == [t |-> "None"]
Str(s) == [t |-> "str", s |-> s]
Bytes(s) == [t |-> "bytes", s |-> s]
PyInt(n) == [t |-> "int", n |-> n]
\* a dict is its set of <<key, value>> items, a list its sequence of elements
Dict(items) == [t |-> "dict", items |-> items]
List(elems) == [t |-> "list", elems |-> elems]
\* a keyword argument or attribute that is not there at all
Absent == [t |-> "absent"]

\* bool(v) as the interpreter evaluates it in `if v:` / `not v`
Truthy(v) ==
    CASE v.t = "None" -> FALSE
      [] v.t = "str" -> v.s # ""
      [] v.t = "bytes" -> v.s # ""
      [] v.t = "int" -> v.n # 0
      [] v.t = "dict" -> v.items # {}
      [] v.t = "list" -> v.elems # <<>>
      [] OTHER -> TRUE

\* d.get(key) on a dict
DictGet(d, key) ==
    IF \E it \in d.items : it[1] = key
    THEN (CHOOSE it \in d.items : it[1] = key)[2]
    ELSE None

-----------------------------------------------------------------------------
(* The transport: raw responses and response.json() *)

TokenBody1 == "{\"token\": \"t1\"}"
TokenBody1Compact == "{\"token\":\"t1\"}"
TokenBody2 == "{\"token\": \"t2\"}"
EmptyTokenBody == "{\"token\": \"\"}"
NullTokenBody == "{\"token\": null}"
EmptyObjectBody == "{}"
RecordBody == "{\"pk\": \"1\"}"
NullBody == "null"
ArrayBody == "[]"
HtmlBody == "<html>error</html>"

\* the primary keys the service hands out: one for every request it can answer
PKs == 1..MaxServiceRequests

\* the store records, media pids and identifier names the service can hold
StoreRecords == [pk : PKs, type : {"DictStore"}, bucket : {"b"}, s3_url : {""}]
MediaPids == {"p1"}
IdentifierNames == {"n1"}

\* the bodies in which the service returns a store, a media record, an identifier
StoreJson(rec) ==
    "{\"pk\": " \o ToString(rec.pk) \o ", \"type\": \"" \o rec.type
        \o "\", \"bucket\": \"" \o rec.bucket
        \o "\", \"s3_url\": \"" \o rec.s3_url \o "\"}"
MediaJson(pid) == "{\"pid\": \"" \o pid \o "\"}"
IdentifierJson(name) == "{\"name\": \"" \o name \o "\"}"

\* the lists of media pids a bulk answer can carry, and the body that reports which
\* of the listed records were processed and which were not
PidLists == {<<>>} \cup {<<pid>> : pid \in MediaPids}
BulkResults == [successes : PidLists, failures : PidLists]
PidListJson(pids) == IF pids = <<>> THEN "[]" ELSE "[\"" \o pids[1] \o "\"]"
BulkJson(res) ==
    "{\"successes\": " \o PidListJson(res.successes)
        \o ", \"failures\": " \o PidListJson(res.failures) \o "}"
StrList(pids) == List([i \in 1..Len(pids) |-> Str(pids[i])])

\* the payload a store body decodes to
StoreDict(rec) ==
    Dict({<<"pk", PyInt(rec.pk)>>, <<"type", Str(rec.type)>>,
          <<"bucket", Str(rec.bucket)>>, <<"s3_url", Str(rec.s3_url)>>})

\* raw response bodies the server may send
Contents ==
    {TokenBody1, TokenBody1Compact, TokenBody2, EmptyTokenBody, NullTokenBody,
     EmptyObjectBody, RecordBody, NullBody, ArrayBody, HtmlBody}

\* the bodies sent along with every status code: one that decodes and one that does not
AnyStatusContents == {RecordBody, HtmlBody}

\* status codes the server may send: the edges of every class the dispatcher tells apart
StatusCodes == {100, 200, 201, 204, 301, 400, 422, 499, 500, 599, 600}

\* the responses of the transport: every status code with the two common bodies,
\* and status 200 with every body
Responses ==
    [status_code : StatusCodes, content : AnyStatusContents]
        \cup [status_code : {200}, content : Contents]

\* what the call received when no request was issued
NoResponse == [status_code |-> 0, content |-> ""]

\* response.json(): the decoded payload, or a JSONDecodeError
ParseJson(content) ==
    CASE content = TokenBody1 -> [ok |-> TRUE, value |-> Dict({<<"token", Str("t1")>>})]
      [] content = TokenBody1Compact -> [ok |-> TRUE, value |-> Dict({<<"token", Str("t1")>>})]
      [] content = TokenBody2 -> [ok |-> TRUE, value |-> Dict({<<"token", Str("t2")>>})]
      [] content = EmptyTokenBody -> [ok |-> TRUE, value |-> Dict({<<"token", Str("")>>})]
      [] content = NullTokenBody -> [ok |-> TRUE, value |-> Dict({<<"token", None>>})]
      [] content = EmptyObjectBody -> [ok |-> TRUE, value |-> Dict({})]
      [] content = RecordBody -> [ok |-> TRUE, value |-> Dict({<<"pk", Str("1")>>})]
      [] content = NullBody -> [ok |-> TRUE, value |-> None]
      [] content = ArrayBody -> [ok |-> TRUE, value |-> List(<<>>)]
      [] \E rec \in StoreRecords : content = StoreJson(rec) ->
           [ok |-> TRUE,
            value |-> StoreDict(CHOOSE rec \in StoreRecords : content = StoreJson(rec))]
      [] \E pid \in MediaPids : content = MediaJson(pid) ->
           [ok |-> TRUE,
            value |-> Dict({<<"pid", Str(CHOOSE pid \in MediaPids :
                                           content = MediaJson(pid))>>})]
      [] \E name \in IdentifierNames : content = IdentifierJson(name) ->
           [ok |-> TRUE,
            value |-> Dict({<<"name", Str(CHOOSE name \in IdentifierNames :
                                            content = IdentifierJson(name))>>})]
      [] \E res \in BulkResults : content = BulkJson(res) ->
           LET res == CHOOSE res \in BulkResults : content = BulkJson(res)
           IN [ok |-> TRUE,
               value |-> Dict({<<"successes", StrList(res.successes)>>,
                               <<"failures", StrList(res.failures)>>})]
      [] OTHER -> [ok |-> FALSE, value |-> None]

-----------------------------------------------------------------------------
(* ApiResponse and the exceptions *)

ApiResponse(status_code, response, error_message) ==
    [status_code |-> status_code, response |-> response, error_message |-> error_message]

\* ClientError / ServerError / LocalError: the envelope is kept in .response, args stay empty
TypedError(exc, response) == [exc |-> exc, response |-> response, args |-> <<>>]

\* the built-in Exception(arg): the argument is kept in .args, there is no .response
GenericError(arg) == [exc |-> "Exception", response |-> Absent, args |-> <<arg>>]

\* an exception raised by a library call inside the client
LibraryError(exc) == [exc |-> exc, response |-> Absent, args |-> <<>>]

Returned(value, sent) == [outcome |-> "return", value |-> value, error |-> None, sent |-> sent]
Raised(error, sent) == [outcome |-> "raise", value |-> None, error |-> error, sent |-> sent]

\* one request handed to the transport
Request(method, url, hdrs, json) ==
    [method |-> method, url |-> url, headers |-> hdrs, json |-> json]

-----------------------------------------------------------------------------
(* ApiClient.login *)

\* the client's fields that login, hello and make_request read
Self == [base_url |-> base_url, username |-> username, password |-> password,
         token |-> token, headers |-> headers]

login_request(self) ==
    Request("post", self.base_url \o "/api/login", Absent,
            Dict({<<"username", Str(self.username)>>, <<"password", Str(self.password)>>}))

\* a header mapping with the scheme and the token run together
auth_headers_no_space(tok) == Dict({<<"Authorization", Str("Bearer" \o tok.s)>>})

\* the header mapping derived from a token
auth_headers(tok) == Dict({<<"Authorization", Str("Bearer " \o tok.s)>>})

\* a non-200 branch that reports the failure as a LocalError envelope
login_failed_as_local_error(resp) ==
    TypedError("LocalError",
               ApiResponse(resp.status_code, None, Bytes(resp.content)))

\* the error of the non-200 branch
login_failed(resp) ==
    GenericError(Str("Failed to retrieve token. Status code: " \o ToString(resp.status_code)))

\* a login that forgets the session whenever it fails
login_forgetting_session(self, resp) ==
    LET sent == <<login_request(self)>>
        parsed == ParseJson(resp.content)
        tok == DictGet(parsed.value, "token")
    IN  IF resp.status_code = 200 /\ parsed.ok /\ parsed.value.t = "dict" /\ Truthy(tok)
        THEN [token |-> tok, headers |-> auth_headers(tok), result |-> Returned(None, sent)]
        ELSE [token |-> None, headers |-> None, result |-> Raised(login_failed(resp), sent)]

\* login(): the token and headers it leaves behind and how it ends
login(self, resp) ==
    LET sent == <<login_request(self)>>
        parsed == ParseJson(resp.content)
        tok == DictGet(parsed.value, "token")
    IN  IF resp.status_code = 200
        THEN IF ~parsed.ok
             THEN [token |-> self.token, headers |-> self.headers,
                   result |-> Raised(LibraryError("JSONDecodeError"), sent)]
             ELSE IF parsed.value.t # "dict"
             THEN [token |-> self.token, headers |-> self.headers,
                   result |-> Raised(LibraryError("AttributeError"), sent)]
             ELSE IF Truthy(tok)
             THEN [token |-> tok, headers |-> auth_headers(tok),
                   result |-> Returned(None, sent)]
             ELSE [token |-> tok, headers |-> self.headers,
                   result |-> Raised(GenericError(Str("Token not found in response.")), sent)]
        ELSE [token |-> self.token, headers |-> self.headers,
              result |-> Raised(login_failed(resp), sent)]

\* a constructor that swallows the failure of login()
init_phase_always_alive(result) == "alive"

\* __init__ ends as login() ends: its exception leaves __init__ and no client exists
init_phase(result) == IF result.outcome = "return" THEN "alive" ELSE "dead"

-----------------------------------------------------------------------------
(* ApiClient.hello *)

hello(self, resp) ==
    LET sent == <<Request("get", self.base_url \o "/api/hello", self.headers, Absent)>>
        parsed == ParseJson(resp.content)
    IN  IF resp.status_code = 200
        THEN IF parsed.ok
             THEN Returned(parsed.value, sent)
             ELSE Raised(LibraryError("JSONDecodeError"), sent)
        ELSE Raised(GenericError(Str("Failed to ping media store. Status code: "
                                     \o ToString(resp.status_code))), sent)

-----------------------------------------------------------------------------
(* ApiClient.make_request *)

\* a weaker token check: only an unset token is refused
no_token_unset_only(self) == self.token = None

\* `if not self.token`
no_token(self) == ~Truthy(self.token)

\* request_kwargs: the headers always, the json payload only for a truthy params
request_kwargs(self, params) ==
    [headers |-> self.headers, json |-> IF Truthy(params) THEN params ELSE Absent]

\* verb matching that ignores case
SupportedMethodsAnyCase == {"get", "post", "put", "patch", "delete", "GET"}

\* the verbs of the if/elif chain that reach a requests.<verb> call
SupportedMethods == {"get", "post", "put", "patch", "delete"}

\* a 200 branch that forgets the payload
on_200_without_payload(resp, sent) ==
    Returned(ApiResponse(resp.status_code, None, None), sent)

\* `if sc == 200`: the envelope carries response.json()
on_200(resp, sent) ==
    LET parsed == ParseJson(resp.content)
    IN  IF parsed.ok
        THEN Returned(ApiResponse(resp.status_code, parsed.value, None), sent)
        ELSE Raised(LibraryError("JSONDecodeError"), sent)

\* a 204 branch that decodes the body like the 200 branch
on_204_with_payload(resp, sent) ==
    LET parsed == ParseJson(resp.content)
    IN  IF parsed.ok
        THEN Returned(ApiResponse(resp.status_code, parsed.value, None), sent)
        ELSE Returned(ApiResponse(resp.status_code, None, Bytes(resp.content)), sent)

\* `elif sc == 204`: the envelope carries the status code alone
on_204(resp, sent) == Returned(ApiResponse(resp.status_code, None, None), sent)

\* a 4xx range whose upper edge is off by one
is_client_error_upto_500(sc) == 400 <= sc /\ sc <= 500

\* `elif 400 <= sc < 500`
is_client_error(sc) == 400 <= sc /\ sc < 500

\* a 5xx range whose upper edge is off by one
is_server_error_upto_600(sc) == 500 <= sc /\ sc <= 600

\* `elif 500 <= sc < 600`
is_server_error(sc) == 500 <= sc /\ sc < 600

\* a last branch that hands the envelope back instead of raising
on_other_returning(resp, sent) ==
    Returned(ApiResponse(resp.status_code, None, Bytes(resp.content)), sent)

\* `else`: the built-in Exception around the envelope
on_other(resp, sent) ==
    Raised(GenericError(ApiResponse(resp.status_code, None, Bytes(resp.content))), sent)

\* a classification that reports a failing server as a transient, retryable failure
classify_raising_retryable(resp, sent) ==
    LET sc == resp.status_code
    IN  IF sc = 200 THEN on_200(resp, sent)
        ELSE IF sc = 204 THEN on_204(resp, sent)
        ELSE IF is_client_error(sc)
        THEN Raised(TypedError("NonRetryableError", ApiResponse(sc, None, Bytes(resp.content))), sent)
        ELSE IF is_server_error(sc)
        THEN Raised(TypedError("RetryableError", ApiResponse(sc, None, Bytes(resp.content))), sent)
        ELSE on_other(resp, sent)

\* a dispatcher that hands error answers back as envelopes instead of raising
classify_returning_errors(resp, sent) ==
    LET sc == resp.status_code
    IN  IF sc = 200 THEN on_200(resp, sent)
        ELSE IF sc = 204 THEN on_204(resp, sent)
        ELSE IF is_client_error(sc) \/ is_server_error(sc)
        THEN Returned(ApiResponse(sc, None, Bytes(resp.content)), sent)
        ELSE on_other(resp, sent)

\* the classification of the raw response into an envelope or an error
classify(resp, sent) ==
    LET sc == resp.status_code
    IN  IF sc = 200 THEN on_200(resp, sent)
        ELSE IF sc = 204 THEN on_204(resp, sent)
        ELSE IF is_client_error(sc)
        THEN Raised(TypedError("ClientError", ApiResponse(sc, None, Bytes(resp.content))), sent)
        ELSE IF is_server_error(sc)
        THEN Raised(TypedError("ServerError", ApiResponse(sc, None, Bytes(resp.content))), sent)
        ELSE on_other(resp, sent)

\* a dispatcher that looks at the verb before it looks at the token
make_request_verb_first(self, url, method, params, resp) ==
    IF method \notin SupportedMethods
    THEN Raised(TypedError("LocalError",
                  ApiResponse(405, None, Str("Method not supported: " \o method))),
                <<>>)
    ELSE IF no_token(self)
    THEN Raised(TypedError("LocalError",
                  ApiResponse(401, None, Str("No bearer token found. Please login first."))),
                <<>>)
    ELSE LET kwargs == request_kwargs(self, params)
         IN  classify(resp, <<Request(method, url, kwargs.headers, kwargs.json)>>)

\* a dispatcher that issues the request a second time when the server fails
make_request_retrying(self, url, method, params, resp) ==
    IF no_token(self)
    THEN Raised(TypedError("LocalError",
                  ApiResponse(401, None, Str("No bearer token found. Please login first."))),
                <<>>)
    ELSE IF method \in SupportedMethods
    THEN LET kwargs == request_kwargs(self, params)
             req == Request(method, url, kwargs.headers, kwargs.json)
         IN  IF is_server_error(resp.status_code)
             THEN classify(resp, <<req, req>>)
             ELSE classify(resp, <<req>>)
    ELSE Raised(TypedError("LocalError",
                  ApiResponse(405, None, Str("Method not supported: " \o method))),
                <<>>)

\* make_request: the token check, the verb chain with its single requests call,
\* and the classification of the response
make_request(self, url, method, params, resp) ==
    IF no_token(self)
    THEN Raised(TypedError("LocalError",
                  ApiResponse(401, None, Str("No bearer token found. Please login first."))),
                <<>>)
    ELSE IF method \in SupportedMethods
    THEN LET kwargs == request_kwargs(self, params)
         IN  classify(resp, <<Request(method, url, kwargs.headers, kwargs.json)>>)
    ELSE Raised(TypedError("LocalError",
                  ApiResponse(405, None, Str("Method not supported: " \o method))),
                <<>>)

-----------------------------------------------------------------------------
(* ApiClient.validate_schema and the resource operations *)

\* validate_schema when the schema class rejects the parameters
schema_validation_failed(schema) ==
    TypedError("ClientError",
               ApiResponse(400, None, Str("Schema validation failed for " \o schema)))

\* One row per resource operation: the verb and the path it hands to make_request,
\* whether an identifier is interpolated into the path, the shape of the body
\* ("none": no params argument; "record": the dump of one schema object;
\* "identifier": the dump of the identifier type named by the caller;
\* "store": the dump of the store configuration; "upload": the dump of the media
\* data with the encoded content of the caller's file;
\* "list": a list built from the caller's list; "data" / "keys": a list of metadata
\* items carrying data / keys), and how the parameters are validated before the
\* dispatch ("validate_schema", a schema "constructor" called directly, "both" or
\* "none") with the schema class validate_schema names.
OperationTable ==
    [ list_media |->
        [verb |-> "get", path |-> "/api/media/dump", arg |-> FALSE, body |-> "none",
         check |-> "none", schema |-> ""],
      get_single_media |->
        [verb |-> "get", path |-> "/api/media/", arg |-> TRUE, body |-> "none",
         check |-> "none", schema |-> ""],
      create_single_media |->
        [verb |-> "post", path |-> "/api/media", arg |-> FALSE, body |-> "record",
         check |-> "both", schema |-> "MediaSchemaCreate"],
      update_single_media |->
        [verb |-> "patch", path |-> "/api/media/", arg |-> TRUE, body |-> "record",
         check |-> "validate_schema", schema |-> "MediaSchemaUpdate"],
      delete_single_media |->
        [verb |-> "delete", path |-> "/api/media/", arg |-> TRUE, body |-> "none",
         check |-> "none", schema |-> ""],
      list_stores |->
        [verb |-> "get", path |-> "/api/stores", arg |-> FALSE, body |-> "none",
         check |-> "none", schema |-> ""],
      get_store |->
        [verb |-> "get", path |-> "/api/store/", arg |-> TRUE, body |-> "none",
         check |-> "none", schema |-> ""],
      create_store |->
        [verb |-> "post", path |-> "/api/store", arg |-> FALSE, body |-> "store",
         check |-> "validate_schema", schema |-> "StoreConfigSchemaCreate"],
      delete_store |->
        [verb |-> "delete", path |-> "/api/store/", arg |-> TRUE, body |-> "none",
         check |-> "none", schema |-> ""],
      list_s3cfgs |->
        [verb |-> "get", path |-> "/api/s3cfgs", arg |-> FALSE, body |-> "none",
         check |-> "none", schema |-> ""],
      get_s3cfg |->
        [verb |-> "get", path |-> "/api/s3cfg/", arg |-> TRUE, body |-> "none",
         check |-> "none", schema |-> ""],
      create_s3cfg |->
        [verb |-> "post", path |-> "/api/s3cfg", arg |-> FALSE, body |-> "record",
         check |-> "validate_schema", schema |-> "S3ConfigSchemaCreate"],
      update_s3cfg |->
        [verb |-> "put", path |-> "/api/s3cfg/", arg |-> TRUE, body |-> "record",
         check |-> "validate_schema", schema |-> "S3ConfigSchemaCreate"],
      delete_s3cfg |->
        [verb |-> "delete", path |-> "/api/s3cfg/", arg |-> TRUE, body |-> "none",
         check |-> "none", schema |-> ""],
      list_identifiers |->
        [verb |-> "get", path |-> "/api/identifier/list", arg |-> FALSE, body |-> "none",
         check |-> "none", schema |-> ""],
      get_identifier |->
        [verb |-> "get", path |-> "/api/identifier/", arg |-> TRUE, body |-> "none",
         check |-> "none", schema |-> ""],
      create_identifier |->
        [verb |-> "post", path |-> "/api/identifier", arg |-> FALSE, body |-> "identifier",
         check |-> "validate_schema", schema |-> "IdentifierTypeSchema"],
      update_identifier |->
        [verb |-> "put", path |-> "/api/identifier", arg |-> FALSE, body |-> "identifier",
         check |-> "validate_schema", schema |-> "IdentifierTypeSchema"],
      delete_identifier |->
        [verb |-> "delete", path |-> "/api/identifier/", arg |-> TRUE, body |-> "none",
         check |-> "none", schema |-> ""],
      upload_media |->
        [verb |-> "post", path |-> "/api/upload", arg |-> FALSE, body |-> "upload",
         check |-> "constructor", schema |-> ""],
      get_download_media_urls |->
        [verb |-> "post", path |-> "/api/download/urls", arg |-> FALSE, body |-> "list",
         check |-> "none", schema |-> ""],
      get_download_media_url |->
        [verb |-> "get", path |-> "/api/download/url/", arg |-> TRUE, body |-> "none",
         check |-> "none", schema |-> ""],
      get_download_media |->
        [verb |-> "get", path |-> "/api/download/", arg |-> TRUE, body |-> "none",
         check |-> "none", schema |-> ""],
      create_bulk_media |->
        [verb |-> "post", path |-> "/api/media/create", arg |-> FALSE, body |-> "list",
         check |-> "constructor", schema |-> ""],
      get_bulk_media |->
        [verb |-> "post", path |-> "/api/media/read", arg |-> FALSE, body |-> "list",
         check |-> "none", schema |-> ""],
      update_bulk_media |->
        [verb |-> "patch", path |-> "/api/media/update", arg |-> FALSE, body |-> "record",
         check |-> "constructor", schema |-> ""],
      search_bulk_media |->
        [verb |-> "post", path |-> "/api/media/search", arg |-> FALSE, body |-> "record",
         check |-> "constructor", schema |-> ""],
      delete_bulk_media |->
        [verb |-> "post", path |-> "/api/media/delete", arg |-> FALSE, body |-> "list",
         check |-> "none", schema |-> ""],
      patch_media_tags |->
        [verb |-> "patch", path |-> "/api/media/update/tags", arg |-> FALSE, body |-> "list",
         check |-> "constructor", schema |-> ""],
      update_media_tags |->
        [verb |-> "put", path |-> "/api/media/update/tags", arg |-> FALSE, body |-> "list",
         check |-> "constructor", schema |-> ""],
      update_media_storekeys |->
        [verb |-> "put", path |-> "/api/media/update/storekeys", arg |-> FALSE,
         body |-> "list", check |-> "constructor", schema |-> ""],
      update_media_identifiers |->
        [verb |-> "put", path |-> "/api/media/update/identifiers", arg |-> FALSE,
         body |-> "list", check |-> "constructor", schema |-> ""],
      update_media_metadata |->
        [verb |-> "put", path |-> "/api/media/update/metadata", arg |-> FALSE,
         body |-> "data", check |-> "constructor", schema |-> ""],
      patch_media_metadata |->
        [verb |-> "patch", path |-> "/api/media/update/metadata", arg |-> FALSE,
         body |-> "data", check |-> "constructor", schema |-> ""],
      delete_media_metadata |->
        [verb |-> "delete", path |-> "/api/media/update/metadata", arg |-> FALSE,
         body |-> "keys", check |-> "constructor", schema |-> ""] ]

OperationNames == DOMAIN OperationTable

\* the three metadata wrappers with the verbs of one another
operation_with_metadata_verbs_swapped(name) ==
    CASE name = "update_media_metadata" -> [OperationTable[name] EXCEPT !.verb = "patch"]
      [] name = "patch_media_metadata" -> [OperationTable[name] EXCEPT !.verb = "put"]
      [] OTHER -> OperationTable[name]

\* delete_identifier as the earlier draft has it: the bare collection path
operation_with_draft_delete_identifier(name) ==
    IF name = "delete_identifier"
    THEN [OperationTable[name] EXCEPT !.path = "/api/identifier", !.arg = FALSE]
    ELSE OperationTable[name]

\* the verb, path and parameter handling of the method `name`
operation(name) == OperationTable[name]

\* a path built without the identifier of the record
operation_url_without_id(self, op, id) == self.base_url \o op.path

\* the url an operation builds: f"{self.base_url}<path>{id}"
operation_url(self, op, id) == self.base_url \o op.path \o (IF op.arg THEN id ELSE "")

\* the content of a file of the caller, and a path that names no file
TestContent == "test content for upload"
NoFile == [t |-> "nofile"]

\* an encoding that hands the bytes on as they are
b64encode_identity(bytes) == Bytes(bytes.s)

\* base64.b64encode on the contents the callers' files hold
b64encode(bytes) ==
    CASE bytes.s = "" -> Bytes("")
      [] bytes.s = TestContent -> Bytes("dGVzdCBjb250ZW50IGZvciB1cGxvYWQ=")

\* store_params of create_store: type and bucket, s3_url only when it is given
store_params(type, bucket, s3_url) ==
    Dict({<<"type", Str(type)>>, <<"bucket", Str(bucket)>>}
         \cup (IF s3_url = "" THEN {} ELSE {<<"s3_url", Str(s3_url)>>}))

\* the params argument an operation builds from the caller's input; the dump of
\* a schema object is written with the fields the caller supplied
operation_params(op, id, payload) ==
    CASE op.body = "none" -> None
      [] op.body = "record" -> Dict({<<"pid", Str(id)>>})
      [] op.body = "identifier" -> Dict({<<"name", Str(id)>>})
      [] op.body = "store" -> payload
      [] op.body = "upload" ->
           Dict({<<"mediadata", Dict({<<"pid", Str(id)>>})>>,
                 <<"base64", IF payload = NoFile THEN None
                             ELSE Str(b64encode(payload).s)>>})
      [] op.body = "list" -> payload
      [] op.body = "data" -> List(<<Dict({<<"pid", Str(id)>>, <<"data", payload>>})>>)
      [] op.body = "keys" -> List(<<Dict({<<"pid", Str(id)>>, <<"keys", payload>>})>>)

\* what the parameter handling of an operation raises before any dispatch, if anything:
\* `verdict` is what the schema library makes of the caller's parameters; the
\* constructors run once per item of the caller's list, so not at all for an empty one
validation_error(op, payload, verdict) ==
    IF /\ verdict = "constructor_rejects"
       /\ op.check \in {"constructor", "both"}
       /\ ~(op.body = "list" /\ payload = List(<<>>))
    THEN LibraryError("ValidationError")
    ELSE IF verdict = "schema_rejects" /\ op.check \in {"validate_schema", "both"}
    THEN schema_validation_failed(op.schema)
    ELSE None

\* an operation that hands back the envelope of a typed error instead of raising
operation_result_swallowing(d) ==
    IF d.outcome = "raise" /\ d.error.response # Absent
    THEN Returned(d.error.response, d.sent)
    ELSE d

\* `return self.make_request(...)`: the operation ends as the dispatch ends
operation_result(d) == d

\* `with open(filepath, 'rb')` of upload_media on a path that names no file
file_error(op, payload) ==
    IF op.body = "upload" /\ payload = NoFile
    THEN LibraryError("FileNotFoundError")
    ELSE None

\* one resource operation: its dispatches (each with the arguments handed to
\* make_request and how make_request ended) and how the operation itself ends
resource_operation(self, name, id, payload, verdict, resp) ==
    LET op == operation(name)
        invalid == validation_error(op, payload, verdict)
        err == IF invalid # None THEN invalid ELSE file_error(op, payload)
        url == operation_url(self, op, id)
        params == operation_params(op, id, payload)
        d == make_request(self, url, op.verb, params, resp)
    IN  IF err # None
        THEN [dispatches |-> <<>>, result |-> Raised(err, <<>>)]
        ELSE [dispatches |-> <<[url |-> url, method |-> op.verb, params |-> params,
                                result |-> d]>>,
              result |-> operation_result(d)]

-----------------------------------------------------------------------------
(* The earlier draft of the client (src/apiclient.py): every operation      *)
(* checks the token, issues its request and reads the status code itself    *)

\* One row per operation of the draft: the requests call (verb, path, whether an
\* identifier is interpolated, and how the argument travels: "json", as query
\* "params", or "none"), the one status it returns on, whether it has the 422
\* branch, the exception class its token check names and the first sentence of
\* its failure message with the argument it quotes, if any.
DraftTable ==
    [ create_media |->
        [verb |-> "post", path |-> "/api/media/create", arg |-> FALSE, body |-> "params",
         success |-> 200, bad_request |-> FALSE, guard |-> "Exception",
         failed |-> "Failed to search media", detail |-> ""],
      search_media |->
        [verb |-> "post", path |-> "/api/media/search", arg |-> FALSE, body |-> "params",
         success |-> 200, bad_request |-> FALSE, guard |-> "Exception",
         failed |-> "Failed to search media", detail |-> ""],
      list_media |->
        [verb |-> "get", path |-> "/api/media/dump", arg |-> FALSE, body |-> "none",
         success |-> 200, bad_request |-> FALSE, guard |-> "Exception",
         failed |-> "Failed to list media", detail |-> ""],
      list_stores |->
        [verb |-> "get", path |-> "/api/stores", arg |-> FALSE, body |-> "none",
         success |-> 200, bad_request |-> FALSE, guard |-> "ClientError",
         failed |-> "Failed to list stores", detail |-> ""],
      get_store |->
        [verb |-> "get", path |-> "/api/store/", arg |-> TRUE, body |-> "none",
         success |-> 200, bad_request |-> FALSE, guard |-> "ClientError",
         failed |-> "Failed to get store", detail |-> "id"],
      create_store |->
        [verb |-> "post", path |-> "/api/store", arg |-> FALSE, body |-> "json",
         success |-> 200, bad_request |-> TRUE, guard |-> "ClientError",
         failed |-> "Failed to create store", detail |-> ""],
      delete_store |->
        [verb |-> "delete", path |-> "/api/store/", arg |-> TRUE, body |-> "none",
         success |-> 204, bad_request |-> FALSE, guard |-> "ClientError",
         failed |-> "Failed to delete store", detail |-> ""],
      list_s3cfgs |->
        [verb |-> "get", path |-> "/api/s3cfgs", arg |-> FALSE, body |-> "none",
         success |-> 200, bad_request |-> FALSE, guard |-> "ClientError",
         failed |-> "Failed to list s3cfgs", detail |-> ""],
      get_s3cfg |->
        [verb |-> "get", path |-> "/api/s3cfg/", arg |-> TRUE, body |-> "none",
         success |-> 200, bad_request |-> FALSE, guard |-> "ClientError",
         failed |-> "Failed to get s3cfg", detail |-> "id"],
      create_s3cfg |->
        [verb |-> "post", path |-> "/api/s3cfg", arg |-> FALSE, body |-> "json",
         success |-> 200, bad_request |-> TRUE, guard |-> "ClientError",
         failed |-> "Failed to create s3cfg", detail |-> ""],
      update_s3cfg |->
        [verb |-> "put", path |-> "/api/s3cfg/", arg |-> TRUE, body |-> "json",
         success |-> 204, bad_request |-> TRUE, guard |-> "ClientError",
         failed |-> "Failed to update s3cfg", detail |-> ""],
      delete_s3cfg |->
        [verb |-> "delete", path |-> "/api/s3cfg/", arg |-> TRUE, body |-> "none",
         success |-> 204, bad_request |-> FALSE, guard |-> "ClientError",
         failed |-> "Failed to delete s3cfg", detail |-> ""],
      list_identifiers |->
        [verb |-> "get", path |-> "/api/identifier/list", arg |-> FALSE, body |-> "none",
         success |-> 200, bad_request |-> FALSE, guard |-> "ClientError",
         failed |-> "Failed to list identifiers", detail |-> ""],
      get_identifier |->
        [verb |-> "get", path |-> "/api/identifier/", arg |-> TRUE, body |-> "none",
         success |-> 200, bad_request |-> FALSE, guard |-> "ClientError",
         failed |-> "Failed to get identifier", detail |-> "name"],
      create_identifier |->
        [verb |-> "post", path |-> "/api/identifier", arg |-> FALSE, body |-> "json",
         success |-> 200, bad_request |-> TRUE, guard |-> "ClientError",
         failed |-> "Failed to create identifier", detail |-> ""],
      update_identifier |->
        [verb |-> "put", path |-> "/api/identifier", arg |-> FALSE, body |-> "json",
         success |-> 204, bad_request |-> TRUE, guard |-> "ClientError",
         failed |-> "Failed to update identifier", detail |-> ""],
      delete_identifier |->
        [verb |-> "delete", path |-> "/api/identifier", arg |-> FALSE, body |-> "json",
         success |-> 204, bad_request |-> FALSE, guard |-> "ClientError",
         failed |-> "Failed to delete identifier", detail |-> ""],
      upload_media |->
        [verb |-> "post", path |-> "/api/upload", arg |-> FALSE, body |-> "json",
         success |-> 200, bad_request |-> TRUE, guard |-> "ClientError",
         failed |-> "Failed to create identifier", detail |-> ""],
      get_download_media_urls |->
        [verb |-> "post", path |-> "/api/download/urls", arg |-> FALSE, body |-> "json",
         success |-> 200, bad_request |-> TRUE, guard |-> "ClientError",
         failed |-> "Failed to create identifier", detail |-> ""],
      get_download_media_url |->
        [verb |-> "get", path |-> "/api/download/url/", arg |-> TRUE, body |-> "none",
         success |-> 200, bad_request |-> FALSE, guard |-> "ClientError",
         failed |-> "Failed to get download url for media object", detail |-> "name"],
      get_download_media |->
        [verb |-> "get", path |-> "/api/download/", arg |-> TRUE, body |-> "none",
         success |-> 200, bad_request |-> FALSE, guard |-> "ClientError",
         failed |-> "Failed to get media object", detail |-> "name"] ]

DraftNames == DOMAIN DraftTable

\* the request of a draft operation: the argument travels as json= or as params=
DraftRequest(method, url, hdrs, json, query) ==
    [method |-> method, url |-> url, headers |-> hdrs, json |-> json, params |-> query]

draft_request(self, row, id, arg) ==
    DraftRequest(row.verb, self.base_url \o row.path \o (IF row.arg THEN id ELSE ""),
                 self.headers,
                 IF row.body = "json" THEN arg ELSE Absent,
                 IF row.body = "params" THEN arg ELSE Absent)

\* `raise Exception("No bearer token found. ...")` and
\* `raise ClientError("No bearer token found. ...")`: the draft's ClientError is
\* declared __init__(self, message, response), so building it from the message
\* alone raises TypeError and no ClientError ever exists
draft_no_token_error(row) ==
    IF row.guard = "Exception"
    THEN GenericError(Str("No bearer token found. Please login first."))
    ELSE LibraryError("TypeError")

\* the first sentence of the failure message of an operation
draft_failed_text(row, id) ==
    row.failed \o (IF row.detail = "" THEN "."
                   ELSE " (" \o row.detail \o " " \o id \o ").")

\* the text after the first sentence of a failure message (the body is quoted
\* without the b'...' of its repr)
draft_status_text(resp) ==
    " Status code: " \o ToString(resp.status_code) \o "  Response: " \o resp.content

\* BadRequestException(message): the message is taken as its response argument
\* (the argument of the operation, which the message quotes, is left out)
draft_bad_request(resp) ==
    TypedError("BadRequestException", Str("Invalid request." \o draft_status_text(resp)))

\* an operation that takes both success statuses
draft_accepts_200_and_204(row, sc) == sc \in {200, 204}

\* `if response.status_code == <the operation's status>`
draft_accepts(row, sc) == sc = row.success

\* the if/elif/else over the status code of a draft operation
draft_on_status(row, id, resp, sent) ==
    LET parsed == ParseJson(resp.content)
    IN  IF draft_accepts(row, resp.status_code)
        THEN IF row.success = 204 THEN Returned(None, sent)
             ELSE IF parsed.ok THEN Returned(parsed.value, sent)
             ELSE Raised(LibraryError("JSONDecodeError"), sent)
        ELSE IF resp.status_code = 422 /\ row.bad_request
        THEN Raised(draft_bad_request(resp), sent)
        ELSE Raised(GenericError(Str(draft_failed_text(row, id) \o draft_status_text(resp))), sent)

\* one operation of the draft
draft_operation(self, name, id, arg, resp) ==
    LET row == DraftTable[name]
    IN  IF ~Truthy(self.token)
        THEN Raised(draft_no_token_error(row), <<>>)
        ELSE draft_on_status(row, id, resp, <<draft_request(self, row, id, arg)>>)

-----------------------------------------------------------------------------
(* Inputs *)

BaseUrls == {"http://localhost:8000"}
Usernames == {"user"}
Passwords == {"secret"}

\* paths a caller hands to make_request
Paths == {"/api/media/dump"}

\* verbs a caller hands to make_request: the supported ones and some that are not
Methods == SupportedMethods \cup {"GET", "head"}

\* bodies a caller hands to make_request
Params == {None, Dict({}), Dict({<<"pid", Str("p1")>>})}

\* identifiers a caller hands to the resource operations
Ids == {"p1"}

\* lists a caller hands to the operations that pass a list on
ListPayloads == {List(<<>>), List(<<Str("p1")>>)}

\* metadata a caller hands to update_media_metadata and patch_media_metadata
DataPayloads == {Dict({<<"new", Str("v2")>>}), Dict({<<"existing", Str("v3")>>})}

\* keys a caller hands to delete_media_metadata
KeysPayloads == {List(<<Str("existing")>>), List(<<Str("new")>>)}

\* the arguments of create_store: a DictStore with a bucket and no s3_url
StorePayloads == {store_params("DictStore", "b", "")}

\* the file a caller hands to upload_media: none, an empty one, one with content
UploadPayloads == {NoFile, Bytes(""), Bytes(TestContent)}

PayloadsFor(body) ==
    CASE body = "list" -> ListPayloads
      [] body = "store" -> StorePayloads
      [] body = "upload" -> UploadPayloads
      [] body = "data" -> DataPayloads
      [] body = "keys" -> KeysPayloads
      [] OTHER -> {None}

\* what the schema library may make of the parameters of an operation
VerdictsFor(check) ==
    CASE check = "validate_schema" -> {"ok", "schema_rejects"}
      [] check = "constructor" -> {"ok", "constructor_rejects"}
      [] check = "both" -> {"ok", "schema_rejects", "constructor_rejects"}
      [] OTHER -> {"ok"}

\* the responses of the transport to the resource operations
OperationResponses ==
    { [status_code |-> 200, content |-> RecordBody],
      [status_code |-> 204, content |-> RecordBody],
      [status_code |-> 201, content |-> RecordBody],
      [status_code |-> 422, content |-> RecordBody],
      [status_code |-> 500, content |-> HtmlBody] }

\* the record of a completed call
Call(op, url, method, params, self, resp, r) ==
    [op |-> op, url |-> url, method |-> method, params |-> params,
     pre_token |-> self.token, pre_headers |-> self.headers,
     resp |-> IF r.sent = <<>> THEN NoResponse ELSE resp,
     outcome |-> r.outcome, value |-> r.value, error |-> r.error, sent |-> r.sent]

NoCall ==
    [op |-> "none", url |-> "", method |-> "", params |-> None,
     pre_token |-> Absent, pre_headers |-> Absent, resp |-> NoResponse,
     outcome |-> "none", value |-> None, error |-> None, sent |-> <<>>]

\* the record of a completed resource operation
OperationCall(name, id, payload, verdict, self, resp, r) ==
    [op |-> name, id |-> id, payload |-> payload, verdict |-> verdict,
     url |-> IF r.dispatches = <<>> THEN "" ELSE r.dispatches[1].url,
     method |-> IF r.dispatches = <<>> THEN "" ELSE r.dispatches[1].method,
     params |-> IF r.dispatches = <<>> THEN None ELSE r.dispatches[1].params,
     pre_token |-> self.token, pre_headers |-> self.headers,
     resp |-> IF r.result.sent = <<>> THEN NoResponse ELSE resp,
     outcome |-> r.result.outcome, value |-> r.result.value, error |-> r.result.error,
     sent |-> r.result.sent, dispatches |-> r.dispatches]

\* the argument a caller hands to an operation of the draft that takes one
DraftArguments == {Dict({<<"name", Str("n1")>>})}

\* the responses of the transport to the operations of the draft
DraftResponses ==
    { [status_code |-> 200, content |-> RecordBody],
      [status_code |-> 200, content |-> HtmlBody],
      [status_code |-> 204, content |-> RecordBody],
      [status_code |-> 201, content |-> RecordBody],
      [status_code |-> 422, content |-> RecordBody],
      [status_code |-> 500, content |-> HtmlBody] }

\* the record of a completed operation of the draft
DraftCall(name, id, arg, self, resp, r) ==
    [op |-> name, draft |-> TRUE, id |-> id, arg |-> arg,
     url |-> "", method |-> DraftTable[name].verb, params |-> None,
     pre_token |-> self.token, pre_headers |-> self.headers,
     resp |-> IF r.sent = <<>> THEN NoResponse ELSE resp,
     outcome |-> r.outcome, value |-> r.value, error |-> r.error, sent |-> r.sent]

-----------------------------------------------------------------------------
(* The remote service: the metadata endpoint and the stored records *)

\* the service before the client touches it: the media record p1 with its metadata,
\* no store, no identifier; `deleted` remembers every record the service removed
InitialServer ==
    [metadata |-> Dict({<<"existing", Str("v1")>>}),
     stores |-> {}, next_pk |-> 1, media |-> {"p1"}, identifiers |-> {},
     deleted |-> {}]

\* D merged key-wise into M: the keys of D take D's values, the others keep M's
MergeMetadata(M, D) ==
    Dict({it \in M.items : ~\E new \in D.items : new[1] = it[1]} \cup D.items)

\* M without the keys listed in K
RemoveMetadataKeys(M, K) ==
    Dict({it \in M.items : ~\E i \in 1..Len(K.elems) : K.elems[i].s = it[1]})

\* one item of an accepted request to /api/media/update/metadata applied to M:
\* PUT replaces, PATCH merges, DELETE removes the named keys
apply_metadata_item(verb, M, item) ==
    CASE verb = "put" -> DictGet(item, "data")
      [] verb = "patch" -> MergeMetadata(M, DictGet(item, "data"))
      [] verb = "delete" -> RemoveMetadataKeys(M, DictGet(item, "keys"))
      [] OTHER -> M

\* the stored metadata after the service answered `resp` to the requests `sent`:
\* it changes when the service accepted (200) a request to the metadata endpoint
server_after(srv, base, sent, resp) ==
    IF /\ sent # <<>>
       /\ resp.status_code = 200
       /\ sent[1].url = base \o "/api/media/update/metadata"
       /\ sent[1].json # Absent
    THEN [srv EXCEPT !.metadata =
            apply_metadata_item(sent[1].method, @, sent[1].json.elems[1])]
    ELSE srv

\* the body of an answer that reports an error
ErrorBody == "{\"detail\": \"error\"}"

\* the service refusing a request with one of the status codes `codes`
refuse(srv, codes) ==
    {[resp |-> [status_code |-> c, content |-> ErrorBody], srv |-> srv] : c \in codes}

\* the service accepting a request: its answer and what it holds afterwards
accept(status_code, content, srv) ==
    {[resp |-> [status_code |-> status_code, content |-> content], srv |-> srv]}

\* the status codes for a record that is not there: a missing media record is a
\* server error, a missing store or identifier is some error status
MissingStatuses(kind) == IF kind = "media" THEN {500} ELSE {404, 500}

\* the status codes for a record that is there already
DuplicateStatuses == {400, 500}

\* POST /api/store: the service assigns the next primary key and records the
\* configuration, with an empty s3_url when none was given
serve_create_store(srv, json) ==
    LET rec == [pk |-> srv.next_pk,
                type |-> DictGet(json, "type").s,
                bucket |-> DictGet(json, "bucket").s,
                s3_url |-> IF DictGet(json, "s3_url") = None THEN ""
                           ELSE DictGet(json, "s3_url").s]
    IN accept(200, StoreJson(rec),
              [srv EXCEPT !.stores = @ \cup {rec}, !.next_pk = @ + 1])

\* GET / DELETE /api/store/{pk}
serve_store(srv, method, pk) ==
    LET held == {rec \in srv.stores : ToString(rec.pk) = pk}
    IN IF held = {} THEN refuse(srv, MissingStatuses("store"))
       ELSE IF method = "get"
            THEN accept(200, StoreJson(CHOOSE rec \in held : TRUE), srv)
            ELSE accept(204, "", [srv EXCEPT !.stores = @ \ held,
                                             !.deleted = @ \cup {<<"store", pk>>}])

\* POST /api/media and POST /api/identifier: a record under a new pid / name
serve_create(srv, kind, key) ==
    IF kind = "media"
    THEN IF key \in srv.media THEN refuse(srv, DuplicateStatuses)
         ELSE accept(200, MediaJson(key), [srv EXCEPT !.media = @ \cup {key}])
    ELSE IF key \in srv.identifiers THEN refuse(srv, DuplicateStatuses)
         ELSE accept(200, IdentifierJson(key),
                     [srv EXCEPT !.identifiers = @ \cup {key}])

\* GET / DELETE /api/media/{pid} and /api/identifier/{name}
serve_item(srv, kind, method, key) ==
    LET held == IF kind = "media" THEN srv.media ELSE srv.identifiers
    IN IF key \notin held THEN refuse(srv, MissingStatuses(kind))
       ELSE IF method = "get"
            THEN accept(200, IF kind = "media" THEN MediaJson(key)
                             ELSE IdentifierJson(key), srv)
            ELSE accept(204, "",
                        IF kind = "media"
                        THEN [srv EXCEPT !.media = @ \ {key},
                                         !.deleted = @ \cup {<<"media", key>>}]
                        ELSE [srv EXCEPT !.identifiers = @ \ {key},
                                         !.deleted = @ \cup {<<"identifier", key>>}])

\* POST /api/media/delete: the listed media records that are there are removed
\* and reported as successes, the others as failures
serve_delete_bulk(srv, json) ==
    LET pids == [i \in 1..Len(json.elems) |-> json.elems[i].s]
        held(pid) == pid \in srv.media
        missing(pid) == pid \notin srv.media
        gone == {pids[i] : i \in {j \in 1..Len(pids) : held(pids[j])}}
    IN accept(200,
              BulkJson([successes |-> SelectSeq(pids, held),
                        failures |-> SelectSeq(pids, missing)]),
              [srv EXCEPT !.media = @ \ gone,
                          !.deleted = @ \cup {<<"media", pid>> : pid \in gone}])

\* the answers of the service to one request to its store, media and identifier
\* endpoints, each with what the service holds afterwards; a POST without a body
\* cannot be processed
serve(srv, base, req) ==
    LET store_pks == {ToString(k) : k \in PKs}
        at(path, keys) == {key \in keys : req.url = base \o path \o key}
        item == req.method \in {"get", "delete"}
    IN CASE req.method = "post" /\ req.json = Absent -> refuse(srv, {422})
         [] req.method = "post" /\ req.url = base \o "/api/store" ->
              serve_create_store(srv, req.json)
         [] item /\ at("/api/store/", store_pks) # {} ->
              serve_store(srv, req.method,
                          CHOOSE key \in at("/api/store/", store_pks) : TRUE)
         [] req.method = "post" /\ req.url = base \o "/api/media" ->
              serve_create(srv, "media", DictGet(req.json, "pid").s)
         [] item /\ at("/api/media/", MediaPids) # {} ->
              serve_item(srv, "media", req.method,
                         CHOOSE key \in at("/api/media/", MediaPids) : TRUE)
         [] req.method = "post" /\ req.url = base \o "/api/media/delete" ->
              serve_delete_bulk(srv, req.json)
         [] req.method = "post" /\ req.url = base \o "/api/identifier" ->
              serve_create(srv, "identifier", DictGet(req.json, "name").s)
         [] item /\ at("/api/identifier/", IdentifierNames) # {} ->
              serve_item(srv, "identifier", req.method,
                         CHOOSE key \in at("/api/identifier/", IdentifierNames) : TRUE)
         [] OTHER -> refuse(srv, {404})

\* the operations on stored records, and the identifiers the caller passes to them
ServedOperations ==
    {"create_store", "get_store", "delete_store",
     "create_single_media", "get_single_media", "delete_single_media",
     "delete_bulk_media",
     "create_identifier", "get_identifier", "delete_identifier"}

ServedIds(name) ==
    CASE name \in {"get_store", "delete_store"} -> {ToString(k) : k \in PKs}
      [] name \in {"create_single_media", "get_single_media", "delete_single_media"} ->
           MediaPids
      [] name \in {"create_identifier", "get_identifier", "delete_identifier"} ->
           IdentifierNames
      [] OTHER -> {""}

-----------------------------------------------------------------------------
(* Threads sharing one client: make_request statement by statement *)

\* the threads that call make_request on the same client
ThreadIds == {1, 2}

\* what the threads pass and what the transport answers them
ThreadMethods == {"get", "head"}
ThreadParams == {None, Dict({<<"pid", Str("p1")>>})}
ThreadResponses ==
    {[status_code |-> 200, content |-> RecordBody],
     [status_code |-> 200, content |-> HtmlBody],
     [status_code |-> 204, content |-> ""],
     [status_code |-> 401, content |-> HtmlBody],
     [status_code |-> 500, content |-> HtmlBody]}

\* a thread that is not inside make_request; `pc` is the statement a thread is at:
\* "check" (if not self.token), "build" (request_kwargs), "send" (the verb chain),
\* "wait" (the request is with the transport), "done" (returned or raised)
IdleThread ==
    [pc |-> "idle", url |-> "", method |-> "", params |-> None, kwargs |-> Absent,
     sent |-> <<>>, resp |-> NoResponse, result |-> None]

\* make_request(url, method, params) entered
thread_call(url, method, params) ==
    [IdleThread EXCEPT !.pc = "check", !.url = url, !.method = method, !.params = params]

\* `if not self.token: raise LocalError(401)`: one read of self.token
thread_check_token(self, th) ==
    IF no_token(self)
    THEN [th EXCEPT !.pc = "done",
                    !.result = Raised(TypedError("LocalError",
                                 ApiResponse(401, None,
                                   Str("No bearer token found. Please login first."))),
                                 <<>>)]
    ELSE [th EXCEPT !.pc = "build"]

\* `request_kwargs = {'headers': self.headers}` and the json entry: one read of
\* self.headers
thread_build(self, th) ==
    [th EXCEPT !.pc = "send", !.kwargs = request_kwargs(self, th.params)]

\* the verb chain: the request leaves, or LocalError(405) is raised
thread_send(th) ==
    IF th.method \in SupportedMethods
    THEN [th EXCEPT !.pc = "wait",
                    !.sent = <<Request(th.method, th.url, th.kwargs.headers,
                                       th.kwargs.json)>>]
    ELSE [th EXCEPT !.pc = "done",
                    !.result = Raised(TypedError("LocalError",
                                 ApiResponse(405, None,
                                   Str("Method not supported: " \o th.method))),
                                 <<>>)]

\* the response arrived and is classified
thread_receive(th, resp) ==
    [th EXCEPT !.pc = "done", !.resp = resp, !.result = classify(resp, th.sent)]

-----------------------------------------------------------------------------
(* The state machine *)

Init ==
    /\ phase = "new"
    /\ base_url \in BaseUrls
    /\ username \in Usernames
    /\ password \in Passwords
    /\ token = Absent
    /\ headers = Absent
    /\ default_reties = Absent
    /\ requests_sent = 0
    /\ server = InitialServer
    /\ last = NoCall
    /\ threads = [t \in ThreadIds |-> IdleThread]

\* ApiClient(base_url, username, password): the fields are set, then login() runs;
\* default_reties is assigned only when login() returned
Construct ==
    /\ phase = "new"
    /\ \E resp \in Responses :
         \E self \in {[Self EXCEPT !.token = None, !.headers = None]} :
         \E r \in {login(self, resp)} :
             /\ requests_sent + Len(r.result.sent) <= MaxRequests
             /\ requests_sent' = requests_sent + Len(r.result.sent)
             /\ token' = r.token
             /\ headers' = r.headers
             /\ phase' = init_phase(r.result)
             /\ default_reties' = IF r.result.outcome = "return" THEN PyInt(3) ELSE Absent
             /\ last' = Call("__init__", "", "", None, self, resp, r.result)
             /\ UNCHANGED <<base_url, username, password, server, threads>>

\* client.login() invoked again on a constructed client
Login ==
    /\ phase = "alive"
    /\ \E resp \in Responses :
         \E r \in {login(Self, resp)} :
             /\ requests_sent + Len(r.result.sent) <= MaxRequests
             /\ requests_sent' = requests_sent + Len(r.result.sent)
             /\ token' = r.token
             /\ headers' = r.headers
             /\ last' = Call("login", "", "", None, Self, resp, r.result)
             /\ UNCHANGED <<phase, base_url, username, password, default_reties, server, threads>>

\* a hello that forgets the session when the server refuses the token
Hello_forgetting_session ==
    /\ phase = "alive"
    /\ \E resp \in Responses :
         \E r \in {hello(Self, resp)} :
             /\ requests_sent + Len(r.sent) <= MaxRequests
             /\ requests_sent' = requests_sent + Len(r.sent)
             /\ last' = Call("hello", "", "", None, Self, resp, r)
             /\ token' = IF resp.status_code \in 400..499 THEN None ELSE token
             /\ headers' = IF resp.status_code \in 400..499 THEN None ELSE headers
             /\ UNCHANGED <<phase, base_url, username, password, default_reties, server, threads>>

\* client.hello()
Hello ==
    /\ phase = "alive"
    /\ \E resp \in Responses :
         \E r \in {hello(Self, resp)} :
             /\ requests_sent + Len(r.sent) <= MaxRequests
             /\ requests_sent' = requests_sent + Len(r.sent)
             /\ last' = Call("hello", "", "", None, Self, resp, r)
             /\ UNCHANGED <<phase, session, server, threads>>

\* client.make_request(url, method, params)
MakeRequest ==
    /\ phase = "alive"
    /\ \E path \in Paths, method \in Methods, params \in Params, resp \in Responses :
         \E r \in {make_request(Self, base_url \o path, method, params, resp)} :
             /\ requests_sent + Len(r.sent) <= MaxRequests
             /\ requests_sent' = requests_sent + Len(r.sent)
             /\ last' = Call("make_request", base_url \o path, method, params, Self, resp, r)
             /\ UNCHANGED <<phase, session, server, threads>>

\* a resource operation of the client
ResourceOp ==
    /\ phase = "alive"
    /\ \E name \in OperationNames, id \in Ids, resp \in OperationResponses :
         \E payload \in PayloadsFor(operation(name).body),
            verdict \in VerdictsFor(operation(name).check) :
         \E r \in {resource_operation(Self, name, id, payload, verdict, resp)} :
             /\ requests_sent + Len(r.result.sent) <= MaxRequests
             /\ requests_sent' = requests_sent + Len(r.result.sent)
             /\ server' = server_after(server, base_url, r.result.sent, resp)
             /\ last' = OperationCall(name, id, payload, verdict, Self, resp, r)
             /\ UNCHANGED <<phase, session, threads>>

\* a resource operation on a stored record, answered by the service itself
ServedOp ==
    /\ phase = "alive"
    /\ \E name \in ServedOperations :
         \E id \in ServedIds(name),
            payload \in PayloadsFor(operation(name).body),
            verdict \in VerdictsFor(operation(name).check) :
         \E probe \in {resource_operation(Self, name, id, payload, verdict, NoResponse)} :
         \E o \in (IF probe.result.sent = <<>>
                   THEN {[resp |-> NoResponse, srv |-> server]}
                   ELSE serve(server, base_url, probe.result.sent[1])) :
         \E r \in {resource_operation(Self, name, id, payload, verdict, o.resp)} :
             /\ requests_sent + Len(r.result.sent) <= MaxServiceRequests
             /\ requests_sent' = requests_sent + Len(r.result.sent)
             /\ server' = o.srv
             /\ last' = OperationCall(name, id, payload, verdict, Self, o.resp, r)
             /\ UNCHANGED <<phase, session, threads>>

\* a thread enters make_request
ThreadCall ==
    /\ phase = "alive"
    /\ \E t \in ThreadIds, path \in Paths, method \in ThreadMethods,
          params \in ThreadParams :
         /\ threads[t].pc \in {"idle", "done"}
         /\ threads' = [threads EXCEPT ![t] = thread_call(base_url \o path, method, params)]
         /\ UNCHANGED <<phase, session, requests_sent, server, last>>

\* a thread tests the token
ThreadCheckToken ==
    \E t \in ThreadIds :
        /\ threads[t].pc = "check"
        /\ threads' = [threads EXCEPT ![t] = thread_check_token(Self, @)]
        /\ UNCHANGED <<phase, session, requests_sent, server, last>>

\* a thread builds the keyword arguments of its request
ThreadBuild ==
    \E t \in ThreadIds :
        /\ threads[t].pc = "build"
        /\ threads' = [threads EXCEPT ![t] = thread_build(Self, @)]
        /\ UNCHANGED <<phase, session, requests_sent, server, last>>

\* a thread hands its request to the transport, or raises for the verb
ThreadSend ==
    \E t \in ThreadIds :
        /\ threads[t].pc = "send"
        /\ \E th \in {thread_send(threads[t])} :
            /\ requests_sent + Len(th.sent) <= MaxRequests
            /\ requests_sent' = requests_sent + Len(th.sent)
            /\ threads' = [threads EXCEPT ![t] = th]
            /\ UNCHANGED <<phase, session, server, last>>

\* a dispatcher that drops the session when the service answers 401
ThreadReceive_clearing_token ==
    \E t \in ThreadIds, resp \in ThreadResponses :
        /\ threads[t].pc = "wait"
        /\ threads' = [threads EXCEPT ![t] = thread_receive(@, resp)]
        /\ token' = IF resp.status_code = 401 THEN None ELSE token
        /\ headers' = IF resp.status_code = 401 THEN None ELSE headers
        /\ UNCHANGED <<phase, base_url, username, password, default_reties,
                       requests_sent, server, last>>

\* the response of a thread's request arrives
ThreadReceive ==
    \E t \in ThreadIds, resp \in ThreadResponses :
        /\ threads[t].pc = "wait"
        /\ threads' = [threads EXCEPT ![t] = thread_receive(@, resp)]
        /\ UNCHANGED <<phase, session, requests_sent, server, last>>

\* an operation of the earlier draft, whose __init__ and login are the same
DraftOp ==
    /\ phase = "alive"
    /\ \E name \in DraftNames, id \in Ids, arg \in DraftArguments, resp \in DraftResponses :
         \E r \in {draft_operation(Self, name, id, arg, resp)} :
             /\ requests_sent + Len(r.sent) <= MaxRequests
             /\ requests_sent' = requests_sent + Len(r.sent)
             /\ last' = DraftCall(name, id, arg, Self, resp, r)
             /\ UNCHANGED <<phase, session, server, threads>>

Next ==
    \/ Construct
    \/ Login
    \/ Hello
    \/ MakeRequest

Spec == Init /\ [][Next]_vars

\* the client used through its operations, which reach the dispatcher on their own
NextOps ==
    \/ Construct
    \/ Login
    \/ Hello
    \/ ResourceOp

SpecOps == Init /\ [][NextOps]_vars

\* the earlier draft of the client used through its operations
NextDraft ==
    \/ Construct
    \/ Login
    \/ DraftOp

SpecDraft == Init /\ [][NextDraft]_vars

\* the client operating on the records of a service that answers by what it holds
NextService ==
    \/ Construct
    \/ ServedOp

SpecService == Init /\ [][NextService]_vars

\* several threads dispatching through one constructed client, in any interleaving
NextThreads ==
    \/ Construct
    \/ ThreadCall
    \/ ThreadCheckToken
    \/ ThreadBuild
    \/ ThreadSend
    \/ ThreadReceive

SpecThreads == Init /\ [][NextThreads]_vars

-----------------------------------------------------------------------------
(* Vocabulary of the properties *)

\* the five verbs the dispatcher's contract names
ContractVerbs == {"get", "post", "put", "patch", "delete"}

\* the last call was a dispatch / an invocation of login (by the constructor or directly)
Dispatched == last.op = "make_request"
LoggedIn == last.op \in {"__init__", "login"}

\* the last call handed a request to the transport and received last.resp
ReachedTransport == last.sent # <<>>

\* the token the call started with was empty or unset
StartedWithoutToken == last.pre_token \in {None, Str("")}

\* the last call raised the exception type exc
RaisedType(exc) == last.outcome = "raise" /\ last.error.exc = exc

\* the last call raised one of the three typed errors, carrying the envelope env
RaisedTyped(exc, env) == RaisedType(exc) /\ last.error.response = env

\* the last call raised the built-in Exception constructed from arg
RaisedGeneric(arg) ==
    /\ RaisedType("Exception")
    /\ last.error.response = Absent
    /\ last.error.args = <<arg>>

\* the body of the login response is a JSON object without a non-empty token
LacksToken(content) ==
    content \in {EmptyObjectBody, RecordBody, NullTokenBody, EmptyTokenBody}

\* the envelope the last dispatch returned or attached to the error it raised
LastEnvelope ==
    IF last.outcome = "return" THEN last.value
    ELSE IF last.error.response # Absent THEN last.error.response
    ELSE last.error.args[1]

\* the last dispatch produced an envelope at all
HasEnvelope ==
    /\ Dispatched
    /\ \/ last.outcome = "return"
       \/ last.error.response # Absent
       \/ last.error.args # <<>>

-----------------------------------------------------------------------------
(* C1 *)

\* C1: a dispatch on a client whose token is empty or unset, with any url, verb
\* and body, issues no network request and raises LocalError with an envelope
\* whose status code is 401.
C1_NoTokenFails401 ==
    (Dispatched /\ StartedWithoutToken)
        => /\ last.sent = <<>>
           /\ RaisedType("LocalError")
           /\ last.error.response.status_code = 401
           /\ last.error.response.response = None

C1_Witness ==
    /\ Dispatched
    /\ last.pre_token = Str("")
    /\ last.method = "post"
    /\ Truthy(last.params)
    /\ RaisedType("LocalError")

-----------------------------------------------------------------------------
(* C2 *)

\* C2 as stated: every dispatch with a verb outside the five supported ones
\* issues no request and raises LocalError with status code 405.
C2_Original ==
    (Dispatched /\ last.method \notin ContractVerbs)
        => /\ last.sent = <<>>
           /\ RaisedType("LocalError")
           /\ last.error.response.status_code = 405

\* C2 amended: a dispatch on a client with a non-empty token and a verb outside
\* the five supported ones issues no request and raises LocalError with status
\* code 405; without a token the same dispatch raises LocalError 401 instead.
C2_UnsupportedVerbFails405 ==
    (Dispatched /\ last.method \notin ContractVerbs)
        => /\ last.sent = <<>>
           /\ RaisedType("LocalError")
           /\ last.error.response.status_code
                = IF StartedWithoutToken THEN 401 ELSE 405

C2_Witness ==
    /\ Dispatched
    /\ last.method = "GET"
    /\ ~StartedWithoutToken
    /\ RaisedTyped("LocalError",
                   ApiResponse(405, None, Str("Method not supported: GET")))

-----------------------------------------------------------------------------
(* C3 *)

-----------------------------------------------------------------------------
(* C4 *)

\* C4: for every supported verb, a dispatch whose response has status 204
\* returns an envelope with status code 204, no body and no error message,
\* whatever the raw response body was.
C4_Status204ReturnsEmpty ==
    (/\ Dispatched
     /\ ReachedTransport
     /\ last.resp.status_code = 204)
        => /\ last.method \in ContractVerbs
           /\ last.outcome = "return"
           /\ last.value = ApiResponse(204, None, None)

C4_Witness ==
    /\ Dispatched
    /\ last.method = "delete"
    /\ last.resp = [status_code |-> 204, content |-> RecordBody]
    /\ last.outcome = "return"

-----------------------------------------------------------------------------
(* C5 *)

\* C5: a dispatch raises ClientError exactly when the response status is in
\* 400..499 and ServerError exactly when it is in 500..599; the error carries
\* an envelope with that status code, the raw response body as error message
\* and no body.
C5_ClientAndServerErrors ==
    Dispatched =>
        LET sc == last.resp.status_code
            env == ApiResponse(sc, None, Bytes(last.resp.content))
        IN  /\ RaisedType("ClientError") <=> (ReachedTransport /\ 400 <= sc /\ sc <= 499)
            /\ RaisedType("ServerError") <=> (ReachedTransport /\ 500 <= sc /\ sc <= 599)
            /\ RaisedType("ClientError") => last.error.response = env
            /\ RaisedType("ServerError") => last.error.response = env

C5_Witness ==
    /\ Dispatched
    /\ last.resp = [status_code |-> 500, content |-> HtmlBody]
    /\ RaisedTyped("ServerError", ApiResponse(500, None, Bytes(HtmlBody)))

-----------------------------------------------------------------------------
(* C6 *)

\* C6: for a response status that is neither 200, 204, 4xx nor 5xx the dispatch
\* never returns: it raises the built-in Exception, which is none of the typed
\* errors, around an envelope with that status code and the raw body as error
\* message.
C6_OtherStatusRaisesGeneric ==
    (/\ Dispatched
     /\ ReachedTransport
     /\ last.resp.status_code \notin {200, 204}
     /\ ~(400 <= last.resp.status_code /\ last.resp.status_code <= 599))
        => RaisedGeneric(ApiResponse(last.resp.status_code, None,
                                     Bytes(last.resp.content)))

C6_Witness ==
    /\ Dispatched
    /\ last.resp = [status_code |-> 201, content |-> RecordBody]
    /\ RaisedType("Exception")

-----------------------------------------------------------------------------
(* C7 *)

\* C7 as stated: every envelope the dispatcher returns or attaches to an error
\* has a body when its status code is in the 200 class other than 204, has no
\* body when its status code is 204, and has an error message and is attached
\* to a raised error, never returned, when its status code is 4xx or 5xx.
C7_Original ==
    HasEnvelope =>
        LET env == LastEnvelope
            sc == env.status_code
        IN  /\ (200 <= sc /\ sc <= 299 /\ sc # 204) => env.response # None
            /\ sc = 204 => env.response = None
            /\ (400 <= sc /\ sc <= 599)
                 => (env.error_message # None /\ last.outcome = "raise")

\* C7 amended: an envelope with status code 200 is returned with the decoded
\* payload of the response as its body (present unless the payload is the JSON
\* null) and no error message; one with status code 204 is returned with no
\* body; one with any other 2xx code is attached to a raised generic error and
\* has an error message and no body; one with a 4xx or 5xx code has an error
\* message and is attached to a raised error, never returned.
C7_EnvelopeInvariant ==
    HasEnvelope =>
        LET env == LastEnvelope
            sc == env.status_code
        IN  /\ sc = 200
                 => /\ last.outcome = "return"
                    /\ env.response = ParseJson(last.resp.content).value
                    /\ env.response = None <=> last.resp.content = NullBody
                    /\ env.error_message = None
            /\ sc = 204 => (last.outcome = "return" /\ env.response = None)
            /\ (200 <= sc /\ sc <= 299 /\ sc \notin {200, 204})
                 => /\ RaisedType("Exception")
                    /\ env.response = None
                    /\ env.error_message # None
            /\ (400 <= sc /\ sc <= 599)
                 => (env.error_message # None /\ last.outcome = "raise")
            /\ last.outcome = "return" => sc \in {200, 204}

C7_Witness ==
    /\ HasEnvelope
    /\ LastEnvelope = ApiResponse(201, None, Bytes(RecordBody))
    /\ last.outcome = "raise"

-----------------------------------------------------------------------------
(* C8 *)

\* C8: when the login call returns status 200 with a non-empty token t in its
\* body, login stores token = t, sets the headers to exactly
\* {Authorization: "Bearer t"} and does not raise.
C8_LoginStoresToken ==
    (LoggedIn /\ last.resp.status_code = 200) =>
        /\ last.resp.content \in {TokenBody1, TokenBody1Compact}
             => /\ last.outcome = "return"
                /\ token = Str("t1")
                /\ headers = Dict({<<"Authorization", Str("Bearer t1")>>})
        /\ last.resp.content = TokenBody2
             => /\ last.outcome = "return"
                /\ token = Str("t2")
                /\ headers = Dict({<<"Authorization", Str("Bearer t2")>>})

C8_Witness ==
    /\ last.op = "__init__"
    /\ last.resp = [status_code |-> 200, content |-> TokenBody1Compact]
    /\ phase = "alive"
    /\ token = Str("t1")

-----------------------------------------------------------------------------
(* C9 *)

\* C9 as stated: login fails with LocalError when the login call returns a
\* non-200 status and when it returns 200 with a body that lacks a non-empty
\* token field.
C9_Original ==
    (/\ LoggedIn
     /\ \/ last.resp.status_code # 200
        \/ LacksToken(last.resp.content))
        => RaisedType("LocalError")

\* C9 amended: login fails in both cases, with the built-in Exception carrying
\* a message and no envelope, never with LocalError: "Failed to retrieve token.
\* Status code: <sc>" for a non-200 status, "Token not found in response." for
\* a 200 whose JSON object lacks a non-empty token.
C9_LoginFailsWithGenericError ==
    LoggedIn =>
        /\ last.resp.status_code # 200
             => RaisedGeneric(Str("Failed to retrieve token. Status code: "
                                  \o ToString(last.resp.status_code)))
        /\ (last.resp.status_code = 200 /\ LacksToken(last.resp.content))
             => RaisedGeneric(Str("Token not found in response."))
        /\ ~RaisedType("LocalError")

C9_Witness ==
    /\ last.op = "__init__"
    /\ last.resp = [status_code |-> 422, content |-> RecordBody]
    /\ RaisedGeneric(Str("Failed to retrieve token. Status code: 422"))

-----------------------------------------------------------------------------
(* C10 *)

\* C10 as stated: whenever an invocation of login fails, the client's token is
\* unset when the failure is raised.
C10_Original ==
    (LoggedIn /\ last.outcome = "raise") => token \in {None, Str("")}

\* C10 amended: whenever an invocation of login fails on a client whose token
\* was unset when login was invoked, as it is in the constructor, the token is
\* empty or unset when the failure is raised; a failed login in the constructor yields
\* no client, so that the login request is the only request ever issued for it.
\* A login invoked again on a logged-in client that fails with a non-200 status
\* keeps the old token.
C10_FailedLoginLeavesNoToken ==
    /\ (LoggedIn /\ last.outcome = "raise" /\ StartedWithoutToken)
         => token \in {None, Str("")}
    /\ (last.op = "__init__" /\ last.outcome = "raise")
         => (phase = "dead" /\ token \in {None, Str("")} /\ headers = None)
    /\ phase = "dead"
         => /\ last.op = "__init__"
            /\ last.outcome = "raise"
            /\ requests_sent = 1
    /\ (last.op = "login" /\ last.outcome = "raise" /\ last.resp.status_code # 200)
         => token = last.pre_token

C10_Witness ==
    /\ phase = "dead"
    /\ last.resp = [status_code |-> 200, content |-> EmptyTokenBody]
    /\ token = Str("")

-----------------------------------------------------------------------------
(* C11 *)

\* the last call was one of the resource operations
OperationCalled == last.op \in OperationNames

-----------------------------------------------------------------------------
(* C12 *)

\* the last call was an operation other than login: hello or a resource operation
OtherThanLoginCalled == last.op = "hello" \/ OperationCalled

\* C12: every network request issued by an operation other than login carries
\* the header Authorization: Bearer <token>, where <token> is the client's token
\* at the time of the request.
C12_RequestsCarryCurrentToken ==
    (OtherThanLoginCalled /\ ReachedTransport)
        => /\ last.pre_token.t = "str"
           /\ \A i \in 1..Len(last.sent) :
                last.sent[i].headers = auth_headers(last.pre_token)

-----------------------------------------------------------------------------
(* C13 *)

\* C13: hello and every resource operation require a non-empty token; called
\* with an empty or unset token they raise LocalError and issue no network
\* request.
C13_OperationsRequireToken ==
    (OtherThanLoginCalled /\ StartedWithoutToken)
        => (RaisedType("LocalError") /\ last.sent = <<>>)

-----------------------------------------------------------------------------
(* C14 *)

\* C14: no automatic retry occurs; an invocation of make_request issues at most
\* one network request whatever status code or error results: none when the
\* token or the verb is refused, exactly one otherwise, although the client
\* holds the retry count default_reties = 3.
C14_NoAutomaticRetry ==
    Dispatched
        => /\ Len(last.sent) <= 1
           /\ Len(last.sent) = IF StartedWithoutToken \/ last.method \notin ContractVerbs
                               THEN 0 ELSE 1
           /\ default_reties = PyInt(3)

\* a dispatch answered with a server error issued its single request and raised
C14_Witness ==
    /\ Dispatched
    /\ RaisedType("ServerError")
    /\ last.resp.status_code = 500
    /\ Len(last.sent) = 1
    /\ default_reties = PyInt(3)

-----------------------------------------------------------------------------
(* C15 *)

\* the error types the dispatcher raises by its own raise statements
DispatcherErrors == {"LocalError", "ClientError", "ServerError", "Exception"}

\* C15 as stated: the dispatcher never raises RetryableError or
\* NonRetryableError; the error raised by make_request, if any, is one of
\* LocalError, ClientError, ServerError or the generic error.
C15_Original ==
    (Dispatched /\ last.outcome = "raise") => last.error.exc \in DispatcherErrors

\* C15 amended: the dispatcher never raises RetryableError or NonRetryableError.
\* The error raised by make_request, if any, is LocalError when no request was
\* issued, ClientError for a 4xx answer, ServerError for a 5xx answer, the
\* generic error for any answer other than 200, 204, 4xx and 5xx, and the
\* decoding error of response.json(), which the dispatcher lets through, for a
\* 200 answer whose body is not JSON.
C15_DispatcherErrorTypes ==
    (Dispatched /\ last.outcome = "raise")
        => /\ last.error.exc \notin {"RetryableError", "NonRetryableError"}
           /\ last.error.exc \in DispatcherErrors \cup {"JSONDecodeError"}
           /\ RaisedType("LocalError") <=> ~ReachedTransport
           /\ RaisedType("ClientError")
                <=> (ReachedTransport /\ last.resp.status_code \in 400..499)
           /\ RaisedType("ServerError")
                <=> (ReachedTransport /\ last.resp.status_code \in 500..599)
           /\ RaisedType("JSONDecodeError")
                <=> (ReachedTransport /\ last.resp.status_code = 200)
           /\ RaisedType("Exception")
                <=> (ReachedTransport
                     /\ last.resp.status_code \notin {200, 204} \cup (400..599))

\* a dispatch answered 200 with a body that is not JSON raised the decoding error
C15_Witness ==
    /\ Dispatched
    /\ last.resp = [status_code |-> 200, content |-> HtmlBody]
    /\ RaisedType("JSONDecodeError")

-----------------------------------------------------------------------------
(* C16 *)

\* C16: every error the client raises (a login failure, LocalError, ClientError,
\* ServerError, the generic unclassified error) carries the originating
\* Envelope in the same place, the attribute the typed errors keep it in, and
\* for a failure answered by the server the Envelope holds the status code and
\* the raw body of the answer.
C16_ErrorsCarryEnvelope ==
    last.outcome = "raise"
        => /\ last.error.response # Absent
           /\ ReachedTransport
                => /\ last.error.response.status_code = last.resp.status_code
                   /\ last.error.response.error_message = Bytes(last.resp.content)

-----------------------------------------------------------------------------
(* C18 *)

\* C18: a dispatch that reaches the transport sends the supplied body, whatever
\* value other than absent it is (an empty list or an empty mapping included),
\* as the JSON payload of its request, and sends no payload when no body is
\* supplied.
C18_SuppliedBodyIsSent ==
    (Dispatched /\ ReachedTransport)
        => last.sent[1].json = (IF last.params = None THEN Absent ELSE last.params)

-----------------------------------------------------------------------------
(* C17 *)

\* C17: every resource operation surfaces a failure at once; when the dispatcher
\* raises, the operation raises that same error, and the operation returns only
\* what a dispatch returned, an Envelope with status 200 or 204.
C17_FailuresPropagate ==
    OperationCalled
        => /\ \A i \in 1..Len(last.dispatches) :
                last.dispatches[i].result.outcome = "raise"
                    => /\ last.outcome = "raise"
                       /\ last.error = last.dispatches[i].result.error
           /\ last.outcome = "return"
                => /\ Len(last.dispatches) = 1
                   /\ last.dispatches[1].result.outcome = "return"
                   /\ last.value = last.dispatches[1].result.value
                   /\ last.value.status_code \in {200, 204}
                   /\ last.resp.status_code = last.value.status_code

\* an operation whose dispatch was answered with a failing status raised the
\* dispatcher's ServerError
C17_Witness ==
    /\ OperationCalled
    /\ Len(last.dispatches) = 1
    /\ last.dispatches[1].result.outcome = "raise"
    /\ last.resp.status_code = 500
    /\ RaisedTyped("ServerError", ApiResponse(500, None, Bytes(HtmlBody)))

-----------------------------------------------------------------------------
(* C19 *)

\* every verb of `verbs` on every path of `paths`
Endpoints(verbs, paths) ==
    {[verb |-> v, path |-> p.path, arg |-> p.arg] : v \in verbs, p \in paths}

Fixed(path) == [path |-> path, arg |-> FALSE]
WithId(path) == [path |-> path, arg |-> TRUE]

\* the endpoint table of the interface description, a row with several verbs and
\* several paths read as every verb on every path; a path ending in an
\* identifier is its prefix with arg set
EndpointTable ==
    Endpoints({"get"}, {Fixed("/api/hello"), Fixed("/api/media/dump"), WithId("/api/media/"),
                        WithId("/api/download/url/"), WithId("/api/download/")})
    \cup Endpoints({"post"}, {Fixed("/api/login"), Fixed("/api/media"), Fixed("/api/media/create"),
                              Fixed("/api/media/read"), Fixed("/api/media/search"),
                              Fixed("/api/media/delete"), Fixed("/api/upload"),
                              Fixed("/api/download/urls")})
    \cup Endpoints({"patch", "delete"}, {WithId("/api/media/")})
    \cup Endpoints({"patch", "put"}, {Fixed("/api/media/update/tags")})
    \cup Endpoints({"put"}, {Fixed("/api/media/update/storekeys"),
                             Fixed("/api/media/update/identifiers")})
    \cup Endpoints({"put", "patch", "delete"}, {Fixed("/api/media/update/metadata")})
    \cup Endpoints({"get", "post", "delete"}, {Fixed("/api/stores"), WithId("/api/store/")})
    \cup Endpoints({"get", "post", "put", "delete"},
                   {Fixed("/api/s3cfgs"), WithId("/api/s3cfg/"), Fixed("/api/identifier/list"),
                    Fixed("/api/identifier"), WithId("/api/identifier/")})

\* the endpoints the operations use that the table does not list
UnlistedEndpoints ==
    Endpoints({"patch"}, {Fixed("/api/media/update")})
    \cup Endpoints({"post"}, {Fixed("/api/store"), Fixed("/api/s3cfg")})

\* the i-th dispatch of the last operation went to the endpoint e
DispatchedTo(i, e) ==
    /\ last.dispatches[i].method = e.verb
    /\ last.dispatches[i].url = base_url \o e.path \o (IF e.arg THEN last.id ELSE "")

\* the last operation is `name` and it dispatched: then to verb and path
Uses(name, verb, path) ==
    (last.op = name /\ last.dispatches # <<>>) => DispatchedTo(1, [verb |-> verb] @@ path)

\* C19 as stated: every resource operation issues exactly one dispatch, to a
\* (verb, path) pair of the endpoint table.
C19_Original ==
    OperationCalled
        => /\ Len(last.dispatches) = 1
           /\ \E e \in EndpointTable : DispatchedTo(1, e)

\* C19 amended: every resource operation issues at most one dispatch: none when
\* its parameters fail validation or, for upload_media, the file cannot be opened
\* (it raises that error and sends nothing), exactly one otherwise.  The
\* (verb, path) pair dispatched is one of the endpoint table or one of
\* PATCH /api/media/update (bulk update), POST /api/store (store creation) and
\* POST /api/s3cfg (s3cfg creation), which the table does not list; in particular
\* delete of an identifier is DELETE /api/identifier/{name}, update of an s3cfg is
\* PUT /api/s3cfg/{id}, bulk delete is POST /api/media/delete, tag merge / replace
\* are PATCH / PUT /api/media/update/tags and metadata replace / merge / delete
\* are PUT / PATCH / DELETE /api/media/update/metadata.
C19_OperationEndpoints ==
    OperationCalled
        => /\ Len(last.dispatches) <= 1
           /\ (last.verdict = "ok" /\ last.payload # NoFile) => Len(last.dispatches) = 1
           /\ last.dispatches = <<>>
                => /\ last.sent = <<>>
                   /\ \/ RaisedType("ValidationError")
                      \/ RaisedType("FileNotFoundError") /\ last.op = "upload_media"
                      \/ /\ RaisedType("ClientError")
                         /\ last.error.response.status_code = 400
           /\ last.dispatches # <<>>
                => /\ \E e \in EndpointTable \cup UnlistedEndpoints : DispatchedTo(1, e)
                   /\ (\E e \in UnlistedEndpoints : DispatchedTo(1, e))
                        <=> last.op \in {"update_bulk_media", "create_store", "create_s3cfg"}
           /\ Uses("delete_identifier", "delete", WithId("/api/identifier/"))
           /\ Uses("update_s3cfg", "put", WithId("/api/s3cfg/"))
           /\ Uses("delete_bulk_media", "post", Fixed("/api/media/delete"))
           /\ Uses("patch_media_tags", "patch", Fixed("/api/media/update/tags"))
           /\ Uses("update_media_tags", "put", Fixed("/api/media/update/tags"))
           /\ Uses("update_media_metadata", "put", Fixed("/api/media/update/metadata"))
           /\ Uses("patch_media_metadata", "patch", Fixed("/api/media/update/metadata"))
           /\ Uses("delete_media_metadata", "delete", Fixed("/api/media/update/metadata"))

\* the bulk update dispatched PATCH /api/media/update and the request went out
C19_Witness ==
    /\ last.op = "update_bulk_media"
    /\ Len(last.dispatches) = 1
    /\ DispatchedTo(1, [verb |-> "patch", path |-> "/api/media/update", arg |-> FALSE])
    /\ ReachedTransport
    /\ last.sent[1].method = "patch"

-----------------------------------------------------------------------------
(* C20 *)

\* the keys of a mapping / the strings of a list of keys
KeysOf(d) == {it[1] : it \in d.items}
Named(K) == {K.elems[i].s : i \in 1..Len(K.elems)}

\* C20: for a media record whose metadata is M, a call the service accepts of
\* patch_media_metadata with data D leaves the metadata equal to M merged
\* key-wise with D (the keys of D take D's values, every other key of M keeps
\* its value); of update_media_metadata with data D leaves it exactly D; of
\* delete_media_metadata with keys K leaves it M without exactly the keys of K.
\* A call the service does not accept, and every other operation, leaves the
\* metadata as it was.
C20_MetadataSemantics ==
    [][LET M == server.metadata
           After == server'.metadata
           D == last'.payload
           accepted == last'.sent # <<>> /\ last'.resp.status_code = 200
       IN  /\ (last'.op = "patch_media_metadata" /\ accepted)
                => /\ KeysOf(After) = KeysOf(M) \cup KeysOf(D)
                   /\ \A k \in KeysOf(After) :
                        DictGet(After, k) = IF k \in KeysOf(D) THEN DictGet(D, k)
                                            ELSE DictGet(M, k)
           /\ (last'.op = "update_media_metadata" /\ accepted) => After = D
           /\ (last'.op = "delete_media_metadata" /\ accepted)
                => /\ KeysOf(After) = KeysOf(M) \ Named(D)
                   /\ \A k \in KeysOf(After) : DictGet(After, k) = DictGet(M, k)
           /\ ~(/\ last'.op \in {"patch_media_metadata", "update_media_metadata",
                                 "delete_media_metadata"}
                /\ accepted)
                => After = M
      ]_vars

\* an accepted patch_media_metadata with {new: v2} on the metadata {existing: v1}
\* left {existing: v1, new: v2}
C20_Witness ==
    /\ last.op = "patch_media_metadata"
    /\ last.payload = Dict({<<"new", Str("v2")>>})
    /\ last.resp.status_code = 200
    /\ server.metadata = Dict({<<"existing", Str("v1")>>, <<"new", Str("v2")>>})

-----------------------------------------------------------------------------
(* C25 *)

\* C25: in every state of a client, after any sequence of login invocations and
\* other operations, the headers are set if and only if the token is non-empty,
\* and when set they are {Authorization: "Bearer <token>"} for the current token.
C25_TokenAndHeadersConsistent ==
    phase = "alive"
        => /\ headers # None <=> Truthy(token)
           /\ headers # None
                => (token.t = "str" /\ headers = auth_headers(token))

-----------------------------------------------------------------------------
(* C26 *)

\* C26: the token check precedes the verb check; a dispatch with no token and an
\* unsupported verb fails with LocalError carrying status 401, never 405, and
\* issues no network request.
C26_TokenCheckBeforeVerbCheck ==
    (Dispatched /\ StartedWithoutToken /\ last.method \notin ContractVerbs)
        => /\ RaisedType("LocalError")
           /\ last.error.response.status_code = 401
           /\ last.error.response.status_code # 405
           /\ last.sent = <<>>

\* a dispatch with the verb "head" on a client whose token a failed login had
\* cleared was refused for the token
C26_Witness ==
    /\ Dispatched
    /\ last.pre_token = None
    /\ last.method = "head"
    /\ RaisedTyped("LocalError",
                   ApiResponse(401, None, Str("No bearer token found. Please login first.")))

-----------------------------------------------------------------------------
(* C27 *)

\* C27: hello and every resource operation, and with them make_request, which
\* every resource operation ends in, leave base_url, username, password, token,
\* headers and default_reties unchanged, whether they return or raise; each call
\* therefore runs on the fields as the last login left them, whatever the
\* earlier calls answered.
C27_OperationsFrame ==
    [][(phase = "alive" /\ last'.op \notin {"login", "__init__"})
         => /\ base_url' = base_url /\ username' = username /\ password' = password
            /\ token' = token /\ headers' = headers /\ default_reties' = default_reties
            /\ phase' = phase
            /\ last'.pre_token = token' /\ last'.pre_headers = headers'
      ]_vars

\* a resource operation raised after an earlier call had raised, and the client
\* still holds the token and the headers of the constructor's login
C27_Witness ==
    /\ OperationCalled
    /\ last.outcome = "raise"
    /\ ReachedTransport
    /\ requests_sent = 3
    /\ token = Str("t1")
    /\ headers = auth_headers(Str("t1"))
    /\ default_reties = PyInt(3)

-----------------------------------------------------------------------------
(* C28 *)

\* C28: whenever the parameters of a resource operation fail validation against
\* the operation's schema, the nested store_config of create_single_media and
\* upload_media and the items of the bulk operations included, the operation
\* raises ClientError carrying an Envelope with status code 400 and issues no
\* network request.
C28_ValidationFailureIsClientError400 ==
    (/\ OperationCalled
     /\ last.verdict \in {"schema_rejects", "constructor_rejects"}
     /\ last.dispatches = <<>>)
        => /\ RaisedType("ClientError")
           /\ last.error.response.status_code = 400
           /\ last.sent = <<>>

-----------------------------------------------------------------------------
(* C23 *)

\* the body of an upload of the record `id` with the encoded text `text`
UploadBody(id, text) ==
    Dict({<<"mediadata", Dict({<<"pid", Str(id)>>})>>, <<"base64", Str(text)>>})

\* C23: upload_media accepts both request shapes; for a file with content it
\* dispatches the media data together with the base64 encoding of the file's
\* bytes, for a file without content the media data with an empty base64 field,
\* both as the JSON payload of a POST to /api/upload.
C23_UploadShapes ==
    (last.op = "upload_media" /\ last.verdict = "ok" /\ last.payload # NoFile)
        => /\ Len(last.dispatches) = 1
           /\ last.method = "post"
           /\ last.url = base_url \o "/api/upload"
           /\ last.payload = Bytes(TestContent)
                => last.params = UploadBody(last.id, "dGVzdCBjb250ZW50IGZvciB1cGxvYWQ=")
           /\ last.payload = Bytes("") => last.params = UploadBody(last.id, "")
           /\ ReachedTransport
                => /\ Len(last.sent) = 1
                   /\ last.sent[1].method = "post"
                   /\ last.sent[1].url = base_url \o "/api/upload"
                   /\ last.sent[1].json = last.params

\* an upload of a file without content went out with an empty base64 field and
\* was answered 200
C23_Witness ==
    /\ last.op = "upload_media"
    /\ last.payload = Bytes("")
    /\ ReachedTransport
    /\ last.sent[1].json = UploadBody("p1", "")
    /\ last.outcome = "return"

-----------------------------------------------------------------------------
(* C29 *)

\* the last call was an operation of the earlier draft
DraftCalled == "draft" \in DOMAIN last

\* the operations of the draft on stores, s3cfgs, identifiers, uploads and downloads
DraftGuardedOperations == DraftNames \ {"create_media", "search_media", "list_media"}

\* C29: in the earlier draft, every store, s3cfg, identifier, upload and
\* download operation invoked while the token is empty raises ClientError with
\* the message "No bearer token found. Please login first." and issues no
\* network request.
C29_DraftNoTokenRaisesClientError ==
    (DraftCalled /\ last.op \in DraftGuardedOperations /\ StartedWithoutToken)
        => /\ RaisedType("ClientError")
           /\ last.error.args = <<Str("No bearer token found. Please login first.")>>
           /\ last.sent = <<>>

-----------------------------------------------------------------------------
(* C30 *)

\* the operations of the draft by the kind named in their method name
DraftReturning200 ==
    {"create_media", "search_media", "list_media", "list_stores", "get_store", "create_store",
     "list_s3cfgs", "get_s3cfg", "create_s3cfg", "list_identifiers", "get_identifier",
     "create_identifier", "upload_media", "get_download_media_urls",
     "get_download_media_url", "get_download_media"}
DraftReturning204 ==
    {"delete_store", "update_s3cfg", "delete_s3cfg", "update_identifier", "delete_identifier"}
DraftCreateUpdateUpload ==
    {"create_media", "create_store", "create_s3cfg", "update_s3cfg", "create_identifier",
     "update_identifier", "upload_media", "get_download_media_urls"}

\* a call of the draft that got past the token check and was answered
DraftAnswered == DraftCalled /\ ReachedTransport

\* C30 as stated: each operation of the draft accepts exactly one success
\* status, 200 for list / get / create / upload / download (returning the parsed
\* body) and 204 for update / delete (returning nothing); any other status
\* raises, 422 raising BadRequestException on the create, update, upload and
\* bulk download-url operations and a generic exception otherwise.
C30_Original ==
    DraftAnswered
        => /\ last.outcome = "return"
                => /\ last.op \in DraftReturning200 => last.resp.status_code = 200
                   /\ last.op \in DraftReturning204
                        => (last.resp.status_code = 204 /\ last.value = None)
           /\ (last.op \in DraftReturning200 /\ last.resp.status_code # 200)
                => last.outcome = "raise"
           /\ (last.op \in DraftReturning204 /\ last.resp.status_code # 204)
                => last.outcome = "raise"
           /\ (last.outcome = "raise" /\ last.resp.status_code # 200)
                => IF last.resp.status_code = 422 /\ last.op \in DraftCreateUpdateUpload
                   THEN RaisedType("BadRequestException")
                   ELSE RaisedType("Exception")

\* C30 amended: as stated, except that create_media has no 422 branch and raises
\* the generic exception for 422 like for any other status but 200, and that a
\* 200 answer whose body is not JSON makes a list / get / create / upload /
\* download operation raise the decoding error instead of returning.
C30_DraftStatusHandling ==
    DraftAnswered
        => /\ last.op \in DraftReturning200 \cup DraftReturning204
           /\ last.outcome = "return"
                <=> \/ /\ last.op \in DraftReturning200
                       /\ last.resp.status_code = 200
                       /\ ParseJson(last.resp.content).ok
                    \/ /\ last.op \in DraftReturning204
                       /\ last.resp.status_code = 204
           /\ last.outcome = "return"
                => last.value = IF last.op \in DraftReturning204 THEN None
                                ELSE ParseJson(last.resp.content).value
           /\ last.outcome = "raise"
                => IF last.resp.status_code = 200 /\ last.op \in DraftReturning200
                   THEN RaisedType("JSONDecodeError")
                   ELSE IF /\ last.resp.status_code = 422
                           /\ last.op \in DraftCreateUpdateUpload \ {"create_media"}
                   THEN RaisedType("BadRequestException")
                   ELSE RaisedType("Exception")

\* create_media of the draft, answered 422, raised the generic exception
C30_Witness ==
    /\ DraftAnswered
    /\ last.op = "create_media"
    /\ last.resp.status_code = 422
    /\ RaisedType("Exception")

-----------------------------------------------------------------------------
(* Stored records: create, read back, delete *)

\* the store configuration the caller creates: DictStore in bucket b, no s3_url
CreatedStore(k) == [pk |-> k, type |-> "DictStore", bucket |-> "b", s3_url |-> ""]

\* C21: when create_store with type DictStore and bucket b (no s3_url) returned a
\* record with primary key k, the get_store(k) that follows returns status 200
\* and the record with primary key k, type DictStore, bucket b and an empty s3_url.
C21_StoreRoundTrip ==
    [][(/\ last.op = "create_store"
        /\ last.payload = store_params("DictStore", "b", "")
        /\ last.outcome = "return"
        /\ last'.op = "get_store"
        /\ last'.sent # <<>>
        /\ last'.id = ToString(DictGet(last.value.response, "pk").n))
       => /\ last'.outcome = "return"
          /\ last'.value =
               ApiResponse(200,
                           StoreDict(CreatedStore(DictGet(last.value.response, "pk").n)),
                           None)]_vars

\* get_store returned the store with primary key 1 that create_store had made
C21_Witness ==
    /\ last.op = "get_store"
    /\ last.id = "1"
    /\ last.outcome = "return"
    /\ last.value = ApiResponse(200, StoreDict(CreatedStore(1)), None)
    /\ CreatedStore(1) \in server.stores

\* the reading and deleting operations, and the kind of record each is about
GetOperations == {"get_store", "get_identifier", "get_single_media"}
DeleteOperations == {"delete_store", "delete_identifier", "delete_single_media"}
KindOf(name) ==
    CASE name \in {"get_store", "delete_store"} -> "store"
      [] name \in {"get_identifier", "delete_identifier"} -> "identifier"
      [] OTHER -> "media"

\* the service holds a record of this kind under this identifier
Held(kind, id) ==
    CASE kind = "store" -> \E rec \in server.stores : ToString(rec.pk) = id
      [] kind = "identifier" -> id \in server.identifiers
      [] OTHER -> id \in server.media

\* the get raised, and for a media record what it raised is a ServerError
GetRaised == last.outcome = "raise" /\ (last.op = "get_single_media" => RaisedType("ServerError"))

-----------------------------------------------------------------------------
(* Concurrent use of one client *)

\* C24: when several threads dispatch through one logged-in client in any
\* interleaving, no step of a thread changes the client's attributes (the token
\* and the headers are only read), every request a thread has sent carries the
\* bearer token of the client, and what a finished dispatch returned or raised
\* is what make_request gives for that thread's own arguments and response.
C24_ConcurrentDispatches ==
    /\ [](\A t \in ThreadIds :
            threads[t].sent # <<>>
                => /\ Truthy(token)
                   /\ threads[t].sent[1].headers = auth_headers(token))
    /\ [](\A t \in ThreadIds :
            threads[t].pc = "done"
                => threads[t].result =
                     make_request(Self, threads[t].url, threads[t].method,
                                  threads[t].params, threads[t].resp))
    /\ [][threads' # threads => UNCHANGED session]_vars

\* one thread's dispatch returned while the request of the other was still with
\* the transport
C24_Witness ==
    /\ threads[1].pc = "done"
    /\ threads[1].result.outcome = "return"
    /\ threads[1].sent # <<>>
    /\ threads[2].pc = "wait"
    /\ threads[2].sent[1].headers = auth_headers(token)

====
